---- MODULE Spec2Model ----
(***************************************************************************)
(* A model of flem-serial-rs (src/src/lib.rs): the FlemSerial host-side    *)
(* serial adapter.  The caller thread runs connect / disconnect / listen / *)
(* unlisten / send on one FlemSerial instance; every listen() spawns a     *)
(* listener thread that reads the port, feeds the bytes to a flem::Packet  *)
(* frame assembler and pushes completed packets on an mpsc channel; a      *)
(* consumer drains the channel through the FlemRx it was handed.           *)
(*                                                                         *)
(* The serial port, the port enumeration and the device on the other end   *)
(* of the line are the environment: their outcomes are chosen with \E.     *)
(* The frame assembler (crate flem) is not part of the repository; it is   *)
(* modelled from the interface the specification gives for it.             *)
(***************************************************************************)
EXTENDS Integers, Sequences, FiniteSets, TLC

(***************************************************************************)
(* Bounds of the model.                                                    *)
(***************************************************************************)
\* number of calls the caller makes on the FlemSerial instance
MaxCalls == 3
\* number of bytes the device sends in SpecStream
MaxBytes == 9
\* number of whole valid frames the device sends in Spec and SpecLive
MaxLineFrames == 1
\* number of calls the caller makes in SpecSessions, connect() and the first listen() included
MaxSessionCalls == 4
\* number of bytes the device sends in SpecSessions
MaxSessionBytes == 4

\* the const generic T: size of rx_buffer, the most bytes one read returns
T == 3

(***************************************************************************)
(* The layout of a frame of the modelled codec.                            *)
(***************************************************************************)
\* bytes of one frame: header, request, checksum
FrameLen == 3
\* the byte that starts a frame
HDR == 1
\* number of byte values on the line (0 .. NBytes-1)
NBytes == 2

Byte == 0 .. (NBytes - 1)
Requests == Byte
\* the listener threads: the one of the first listen() and the one of a later listen()
Tasks == {1, 2}
\* ports the enumeration reports under the requested name: none, one, several
Matches == {0, 1, 2}

Min(a, b) == IF a < b THEN a ELSE b

(***************************************************************************)
(* The frame codec (crate flem), from its interface: pack() lays a packet  *)
(* out as header, request, checksum; add_byte stores one byte and reports  *)
(* PacketBuilding, PacketReceived, HeaderBytesNotFound or another error;   *)
(* reset_lazy drops the partial frame.                                     *)
(***************************************************************************)
Checksum(b) == (b + 1) % NBytes

Frame(r) == <<HDR, r, Checksum(r)>>

NewPacket == <<>>

ResetLazy(pkt) == <<>>

AddByteStatus(pkt, b) ==
    IF Len(pkt) >= FrameLen THEN "PacketOverflow"
    ELSE IF Len(pkt) = 0
         THEN IF b = HDR THEN "PacketBuilding" ELSE "HeaderBytesNotFound"
    ELSE IF Len(pkt) + 1 < FrameLen THEN "PacketBuilding"
    ELSE IF b = Checksum(pkt[2]) THEN "PacketReceived"
    ELSE "ChecksumError"

AddByteStore(pkt, b) ==
    IF Len(pkt) >= FrameLen THEN pkt ELSE Append(pkt, b)

VARIABLES
    tx_port,             \* FlemSerial.tx_port: 0 is None, n > 0 the n-th opened connection
    poisoned,            \* the Mutex around tx_port's port is poisoned
    continue_listening,  \* the shared Arc<Mutex<bool>>
    nconn,               \* connections opened so far
    ncalls,              \* calls made by the caller so far
    lastCall,            \* the caller's last call: operation, the one before, environment, result
    nwrites,             \* write_all calls send() has made on a port
    pc,                  \* pc[t]: position of listener thread t
    local_rx_port,       \* local_rx_port[t]: the connection thread t reads from
    rx_buffer,           \* rx_buffer[t]: bytes of the last read not yet fed, rx_buffer[i ..]
    rx_packet,           \* rx_packet[t]: the thread's frame assembler
    queue,               \* queue[t]: contents of the channel created by the t-th listen()
    rx_alive,            \* rx_alive[t]: the Receiver of channel t has not been dropped
    tx_alive,            \* tx_alive[t]: the Sender of channel t has not been dropped
    cons,                \* cons[t]: the consumer of channel t: "idle", "waiting", "closed"
    delivered,           \* delivered[t]: packets the consumer received from channel t
    rxlog,               \* rxlog[t]: every byte thread t has fed to its assembler, in order
    enq,                 \* enq[t]: every packet thread t has sent on its channel, in order
    errs,                \* errs[t]: "none": no read of thread t has failed; "failing": its last
                         \* read failed; "recovered": a read failed and a later one did not
    wire,                \* bytes the device has sent that no read has returned yet
    nsent,               \* frames (Spec, SpecLive) or bytes (SpecStream) the device has sent
    lost                 \* the device is gone: every read of the port returns Err from now on

callerVars == <<tx_port, poisoned, nconn, ncalls, lastCall, nwrites>>
taskVars == <<pc, local_rx_port, rx_buffer, rx_packet, errs>>
chanVars == <<queue, rx_alive, tx_alive, cons, delivered>>
histVars == <<rxlog, enq>>
devVars == <<wire, nsent, lost>>
vars == <<callerVars, continue_listening, taskVars, chanVars, histVars, devVars>>

Running(t) == pc[t] \in {"check", "read", "feed", "exit"}
Terminated(t) == pc[t] \in {"done", "panicked"}
Spawned == {t \in Tasks : pc[t] # "unspawned"}

Call(op, env, res) == [op |-> op, prev |-> lastCall.op, env |-> env, res |-> res]

(***************************************************************************)
(* FlemSerial::new                                                         *)
(***************************************************************************)
Init ==
    /\ tx_port = 0
    /\ poisoned = FALSE
    /\ continue_listening = FALSE
    /\ nconn = 0
    /\ ncalls = 0
    /\ nwrites = 0
    /\ lastCall = [op |-> "new", prev |-> "none", env |-> "none", res |-> "Ok"]
    /\ pc = [t \in Tasks |-> "unspawned"]
    /\ local_rx_port = [t \in Tasks |-> 0]
    /\ rx_buffer = [t \in Tasks |-> <<>>]
    /\ rx_packet = [t \in Tasks |-> NewPacket]
    /\ queue = [t \in Tasks |-> <<>>]
    /\ rx_alive = [t \in Tasks |-> FALSE]
    /\ tx_alive = [t \in Tasks |-> FALSE]
    /\ cons = [t \in Tasks |-> "idle"]
    /\ delivered = [t \in Tasks |-> <<>>]
    /\ rxlog = [t \in Tasks |-> <<>>]
    /\ enq = [t \in Tasks |-> <<>>]
    /\ errs = [t \in Tasks |-> "none"]
    /\ wire = <<>>
    /\ nsent = 0
    /\ lost = FALSE

(***************************************************************************)
(* FlemSerial::connect.  The environment decides whether the enumeration   *)
(* succeeds, how many of the enumerated ports carry the requested name,    *)
(* whether open() succeeds and whether try_clone() of the opened port      *)
(* succeeds.                                                               *)
(***************************************************************************)
ConnectInputs ==
    {[enumOk |-> FALSE, matches |-> 0, openOk |-> FALSE, cloneOk |-> FALSE]}
    \cup {[enumOk |-> TRUE, matches |-> m, openOk |-> FALSE, cloneOk |-> FALSE] :
             m \in Matches}
    \cup {[enumOk |-> TRUE, matches |-> 1, openOk |-> TRUE, cloneOk |-> c] :
             c \in BOOLEAN}

ConnectOutcome(in) ==
    IF ~in.enumOk THEN "Panic"
    ELSE IF in.matches = 0 THEN "NoDeviceFoundByThatName"
    ELSE IF in.matches = 1
         THEN IF in.openOk
              THEN IF in.cloneOk THEN "Ok" ELSE "Panic"
              ELSE "ErrorConnectingToDevice"
    ELSE "MultipleDevicesFoundByThatName"

\* the three errors connect returns
ConnectErrors ==
    {"NoDeviceFoundByThatName", "ErrorConnectingToDevice", "MultipleDevicesFoundByThatName"}

\* a connect that drops the stored port before it looks for the new one
ConnectDropsPortFirst ==
    /\ ncalls < MaxCalls
    /\ \E in \in ConnectInputs :
          LET res == ConnectOutcome(in) IN
          /\ tx_port' = IF res = "Ok" THEN nconn + 1 ELSE 0
          /\ nconn' = IF res = "Ok" THEN nconn + 1 ELSE nconn
          /\ poisoned' = IF res = "Ok" THEN FALSE ELSE poisoned
          /\ lastCall' = Call("connect", in, res)
    /\ ncalls' = ncalls + 1
    /\ UNCHANGED <<nwrites, continue_listening, taskVars, chanVars, histVars, devVars>>

Connect ==
    /\ ncalls < MaxCalls
    /\ \E in \in ConnectInputs :
          LET res == ConnectOutcome(in) IN
          /\ tx_port' = IF res = "Ok" THEN nconn + 1 ELSE tx_port
          /\ nconn' = IF res = "Ok" THEN nconn + 1 ELSE nconn
          /\ poisoned' = IF res = "Ok" THEN FALSE ELSE poisoned
          /\ lastCall' = Call("connect", in, res)
    /\ ncalls' = ncalls + 1
    /\ UNCHANGED <<nwrites, continue_listening, taskVars, chanVars, histVars, devVars>>

(***************************************************************************)
(* FlemSerial::unlisten and FlemSerial::disconnect.                        *)
(***************************************************************************)
\* an unlisten that flips the flag instead of clearing it
UnlistenFlagToggles(flag) == ~flag

UnlistenFlag(flag) == FALSE

\* unlisten() as one of the caller's first `limit` calls
UnlistenWithin(limit) ==
    /\ ncalls < limit
    /\ continue_listening' = UnlistenFlag(continue_listening)
    /\ lastCall' = Call("unlisten", "none", "Unit")
    /\ ncalls' = ncalls + 1
    /\ UNCHANGED <<tx_port, poisoned, nconn, nwrites, taskVars, chanVars, histVars, devVars>>

Unlisten == UnlistenWithin(MaxCalls)

DisconnectPort(tx) == tx

Disconnect ==
    /\ ncalls < MaxCalls
    /\ continue_listening' = UnlistenFlag(continue_listening)
    /\ tx_port' = DisconnectPort(tx_port)
    /\ lastCall' = Call("disconnect", "none", "Some")
    /\ ncalls' = ncalls + 1
    /\ UNCHANGED <<poisoned, nconn, nwrites, taskVars, chanVars, histVars, devVars>>

(***************************************************************************)
(* FlemSerial::listen.  The flag is set before the port is cloned, so it   *)
(* is set also when the call panics (no connection, poisoned lock, failed  *)
(* try_clone).  On success the next thread is spawned with a zeroed        *)
(* rx_buffer, a new Packet and the Sender; the caller gets the Receiver.   *)
(***************************************************************************)
ListenOutcome(tx, pois, cloneOk) ==
    IF tx = 0 THEN "Panic"
    ELSE IF pois THEN "Panic"
    ELSE IF ~cloneOk THEN "Panic"
    ELSE "Ok"

ListenInputs == IF tx_port = 0 \/ poisoned THEN {FALSE} ELSE BOOLEAN

NextTask == Cardinality(Spawned) + 1

\* the assembler of the thread spawned before thread t, if there is one
EarlierPacket(t) == IF t - 1 \in Tasks THEN rx_packet[t - 1] ELSE NewPacket

\* a listener that goes on with the assembler of the earlier session
ListenerPacketKept(earlier) == earlier

\* let mut rx_packet = flem::Packet::<T>::new(), inside the spawned closure
ListenerPacket(earlier) == NewPacket

\* listen() as one of the caller's first `limit` calls
ListenWithin(limit) ==
    /\ ncalls < limit
    /\ \E cloneOk \in ListenInputs :
          LET res == ListenOutcome(tx_port, poisoned, cloneOk)
              t == NextTask
          IN  /\ continue_listening' = TRUE
              /\ lastCall' = Call("listen", cloneOk, res)
              /\ IF res = "Ok"
                 THEN /\ t \in Tasks
                      /\ pc' = [pc EXCEPT ![t] = "check"]
                      /\ local_rx_port' = [local_rx_port EXCEPT ![t] = tx_port]
                      /\ rx_buffer' = [rx_buffer EXCEPT ![t] = <<>>]
                      /\ rx_packet' = [rx_packet EXCEPT ![t] = ListenerPacket(EarlierPacket(t))]
                      /\ rx_alive' = [rx_alive EXCEPT ![t] = TRUE]
                      /\ tx_alive' = [tx_alive EXCEPT ![t] = TRUE]
                      /\ UNCHANGED <<errs, queue, cons, delivered>>
                 ELSE UNCHANGED <<taskVars, chanVars>>
    /\ ncalls' = ncalls + 1
    /\ UNCHANGED <<tx_port, poisoned, nconn, nwrites, histVars, devVars>>

Listen == ListenWithin(MaxCalls)

(***************************************************************************)
(* FlemSerial::send.  The environment decides whether write_all and flush  *)
(* succeed.  flush().unwrap() panics while the port's lock is held, which  *)
(* poisons the lock.                                                       *)
(***************************************************************************)
SendInputs ==
    IF tx_port = 0 \/ poisoned
    THEN {[writeOk |-> FALSE, flushOk |-> FALSE]}
    ELSE {[writeOk |-> FALSE, flushOk |-> FALSE],
          [writeOk |-> TRUE, flushOk |-> FALSE],
          [writeOk |-> TRUE, flushOk |-> TRUE]}

\* a send that unwraps the stored port instead of testing it
SendOutcomeUnwraps(tx, pois, in) ==
    IF tx = 0 THEN "Panic"
    ELSE IF pois THEN "None"
    ELSE IF ~in.writeOk THEN "None"
    ELSE IF ~in.flushOk THEN "Panic"
    ELSE "Some"

SendOutcome(tx, pois, in) ==
    IF tx = 0 THEN "None"
    ELSE IF pois THEN "None"
    ELSE IF ~in.writeOk THEN "None"
    ELSE IF ~in.flushOk THEN "Panic"
    ELSE "Some"

\* send reaches port.write_all: there is a stored port and its lock is taken
SendWrites(tx, pois) == tx # 0 /\ ~pois

Send ==
    /\ ncalls < MaxCalls
    /\ \E in \in SendInputs :
          LET res == SendOutcome(tx_port, poisoned, in) IN
          /\ poisoned' = (poisoned \/ res = "Panic")
          /\ lastCall' = Call("send", in, res)
    /\ nwrites' = IF SendWrites(tx_port, poisoned) THEN nwrites + 1 ELSE nwrites
    /\ ncalls' = ncalls + 1
    /\ UNCHANGED <<tx_port, nconn, continue_listening, taskVars, chanVars, histVars, devVars>>

(***************************************************************************)
(* The listener thread spawned by listen(), one step at a time.            *)
(***************************************************************************)
\* a loop that does not look at the flag
LoopCondAlways(flag) == TRUE

\* while *continue_listening_clone.lock().unwrap()
LoopCond(flag) == flag

LoopCheck(t) ==
    /\ pc[t] = "check"
    /\ pc' = [pc EXCEPT ![t] = IF LoopCond(continue_listening) THEN "read" ELSE "exit"]
    /\ UNCHANGED <<callerVars, continue_listening, local_rx_port, rx_buffer, rx_packet,
                   errs, chanVars, histVars, devVars>>

\* a listener that gives up on a failed read
AfterReadErrBreaks == "exit"

\* the position of the thread after local_rx_port.read returned Err
AfterReadErr == "check"

\* a read that did not fail ends a run of failed reads
Recovered(e) == IF e = "none" THEN "none" ELSE "recovered"

\* a listener that drops the partial frame when a read fails
ReadErrDropsFrame(t) ==
    /\ pc[t] = "read"
    /\ errs' = [errs EXCEPT ![t] = "failing"]
    /\ pc' = [pc EXCEPT ![t] = AfterReadErr]
    /\ rx_packet' = [rx_packet EXCEPT ![t] = ResetLazy(rx_packet[t])]
    /\ UNCHANGED <<callerVars, continue_listening, local_rx_port, rx_buffer,
                   chanVars, histVars, devVars>>

\* local_rx_port.read(&mut rx_buffer) returns Err: nothing is done, the loop goes on
ReadErr(t) ==
    /\ pc[t] = "read"
    /\ errs' = [errs EXCEPT ![t] = "failing"]
    /\ pc' = [pc EXCEPT ![t] = AfterReadErr]
    /\ UNCHANGED <<callerVars, continue_listening, local_rx_port, rx_buffer, rx_packet,
                   chanVars, histVars, devVars>>

\* the read returns Ok(0): the thread sleeps 10 ms and the loop goes on
ReadIdle(t) ==
    /\ pc[t] = "read"
    /\ ~lost
    /\ pc' = [pc EXCEPT ![t] = "check"]
    /\ errs' = [errs EXCEPT ![t] = Recovered(errs[t])]
    /\ UNCHANGED <<callerVars, continue_listening, local_rx_port, rx_buffer, rx_packet,
                   chanVars, histVars, devVars>>

\* the read returns Ok(n), 0 < n <= T, with the next n bytes of the line
ReadData(t) ==
    /\ pc[t] = "read"
    /\ ~lost
    /\ \E n \in 1 .. Min(T, Len(wire)) :
          /\ rx_buffer' = [rx_buffer EXCEPT ![t] = SubSeq(wire, 1, n)]
          /\ wire' = SubSeq(wire, n + 1, Len(wire))
    /\ pc' = [pc EXCEPT ![t] = "feed"]
    /\ errs' = [errs EXCEPT ![t] = Recovered(errs[t])]
    /\ UNCHANGED <<callerVars, continue_listening, local_rx_port, rx_packet,
                   chanVars, histVars, nsent, lost>>

\* the arms of match rx_packet.add_byte(rx_buffer[i]): is a packet sent, is the
\* assembler reset
\* a listener that also forwards the packet when the header is not found
SendsPacketOnInvalid(status) == status \in {"PacketReceived", "HeaderBytesNotFound"}

SendsPacket(status) == status = "PacketReceived"

\* a listener that does not reset the assembler after it sent the packet
ResetsPacketOnErrorOnly(status) == status \notin {"PacketBuilding", "PacketReceived"}

ResetsPacket(status) == status # "PacketBuilding"

\* one iteration of for i in 0..bytes_to_read.  Sending on a channel whose
\* Receiver was dropped fails, and the unwrap() panics the thread.
Feed(t) ==
    /\ pc[t] = "feed"
    /\ LET b == Head(rx_buffer[t])
           rest == Tail(rx_buffer[t])
           status == AddByteStatus(rx_packet[t], b)
           stored == AddByteStore(rx_packet[t], b)
       IN  /\ rxlog' = [rxlog EXCEPT ![t] = Append(rxlog[t], b)]
           /\ IF SendsPacket(status) /\ ~rx_alive[t]
              THEN /\ pc' = [pc EXCEPT ![t] = "panicked"]
                   /\ tx_alive' = [tx_alive EXCEPT ![t] = FALSE]
                   /\ rx_packet' = [rx_packet EXCEPT ![t] = stored]
                   /\ UNCHANGED <<rx_buffer, queue, enq>>
              ELSE /\ pc' = [pc EXCEPT ![t] = IF rest = <<>> THEN "check" ELSE "feed"]
                   /\ rx_buffer' = [rx_buffer EXCEPT ![t] = rest]
                   /\ queue' = [queue EXCEPT ![t] =
                                   IF SendsPacket(status) THEN Append(queue[t], stored)
                                   ELSE queue[t]]
                   /\ enq' = [enq EXCEPT ![t] =
                                 IF SendsPacket(status) THEN Append(enq[t], stored)
                                 ELSE enq[t]]
                   /\ rx_packet' = [rx_packet EXCEPT ![t] =
                                       IF ResetsPacket(status) THEN ResetLazy(stored)
                                       ELSE stored]
                   /\ UNCHANGED tx_alive
    /\ UNCHANGED <<callerVars, continue_listening, local_rx_port, errs,
                   rx_alive, cons, delivered, devVars>>

\* a Sender that outlives the thread (kept outside the closure)
SenderKeptAfterExit(alive) == alive

\* the thread's closure returns: its Sender is dropped with it
SenderAfterExit(alive) == FALSE

\* *continue_listening_clone.lock().unwrap() = false, then the closure returns
Exit(t) ==
    /\ pc[t] = "exit"
    /\ continue_listening' = FALSE
    /\ pc' = [pc EXCEPT ![t] = "done"]
    /\ tx_alive' = [tx_alive EXCEPT ![t] = SenderAfterExit(tx_alive[t])]
    /\ UNCHANGED <<callerVars, local_rx_port, rx_buffer, rx_packet, errs,
                   queue, rx_alive, cons, delivered, histVars, devVars>>

ListenerStep(t) ==
    \/ LoopCheck(t)
    \/ ReadErr(t)
    \/ ReadIdle(t)
    \/ ReadData(t)
    \/ Feed(t)
    \/ Exit(t)

(***************************************************************************)
(* The consumer of the FlemRx returned by the t-th listen():               *)
(* rx_packet_queue.recv() blocks until a packet is there or the Sender is  *)
(* gone; dropping the FlemRx drops the Receiver.                           *)
(***************************************************************************)
RecvCall(t) ==
    /\ rx_alive[t]
    /\ cons[t] = "idle"
    /\ cons' = [cons EXCEPT ![t] = "waiting"]
    /\ UNCHANGED <<callerVars, continue_listening, taskVars, queue, rx_alive, tx_alive,
                   delivered, histVars, devVars>>

RecvPacket(t) ==
    /\ cons[t] = "waiting"
    /\ queue[t] # <<>>
    /\ delivered' = [delivered EXCEPT ![t] = Append(delivered[t], Head(queue[t]))]
    /\ queue' = [queue EXCEPT ![t] = Tail(queue[t])]
    /\ cons' = [cons EXCEPT ![t] = "idle"]
    /\ UNCHANGED <<callerVars, continue_listening, taskVars, rx_alive, tx_alive,
                   histVars, devVars>>

RecvDisconnected(t) ==
    /\ cons[t] = "waiting"
    /\ queue[t] = <<>>
    /\ ~tx_alive[t]
    /\ cons' = [cons EXCEPT ![t] = "closed"]
    /\ UNCHANGED <<callerVars, continue_listening, taskVars, queue, rx_alive, tx_alive,
                   delivered, histVars, devVars>>

DropRx(t) ==
    /\ rx_alive[t]
    /\ cons[t] # "waiting"
    /\ rx_alive' = [rx_alive EXCEPT ![t] = FALSE]
    /\ queue' = [queue EXCEPT ![t] = <<>>]
    /\ UNCHANGED <<callerVars, continue_listening, taskVars, tx_alive, cons,
                   delivered, histVars, devVars>>

ConsumerStep(t) ==
    \/ RecvCall(t)
    \/ RecvPacket(t)
    \/ RecvDisconnected(t)
    \/ DropRx(t)

(***************************************************************************)
(* The device.  In Spec and SpecLive it sends whole frames, numbered 0, 1, *)
(* ... in their request byte; in SpecStream it sends any bytes: frames,    *)
(* line noise, truncated frames, frames with a bad checksum.  A device     *)
(* that is gone sends nothing more.                                        *)
(***************************************************************************)
PortOpen == tx_port # 0 \/ \E t \in Tasks : Running(t)

LineSendFrame ==
    /\ PortOpen
    /\ ~lost
    /\ nsent < MaxLineFrames
    /\ wire' = wire \o Frame(nsent % NBytes)
    /\ nsent' = nsent + 1
    /\ UNCHANGED <<callerVars, continue_listening, taskVars, chanVars, histVars, lost>>

SendByteWithin(limit) ==
    /\ PortOpen
    /\ ~lost
    /\ nsent < limit
    /\ \E b \in Byte : wire' = Append(wire, b)
    /\ nsent' = nsent + 1
    /\ UNCHANGED <<callerVars, continue_listening, taskVars, chanVars, histVars, lost>>

DeviceSendByte == SendByteWithin(MaxBytes)

\* the device disappears (unplugged, powered off): from now on every read fails
DeviceLost ==
    /\ PortOpen
    /\ ~lost
    /\ lost' = TRUE
    /\ UNCHANGED <<callerVars, continue_listening, taskVars, chanVars, histVars, wire, nsent>>

(***************************************************************************)
(* Spec: one FlemSerial instance from new() on, any calls of the caller,   *)
(* the listener threads and their consumers, a device that sends frames.   *)
(***************************************************************************)
Next ==
    \/ Connect
    \/ Disconnect
    \/ Listen
    \/ Unlisten
    \/ Send
    \/ \E t \in Tasks : LoopCheck(t)
    \/ \E t \in Tasks : ReadErr(t)
    \/ \E t \in Tasks : ReadIdle(t)
    \/ \E t \in Tasks : ReadData(t)
    \/ \E t \in Tasks : Feed(t)
    \/ \E t \in Tasks : Exit(t)
    \/ \E t \in Tasks : RecvCall(t)
    \/ \E t \in Tasks : RecvPacket(t)
    \/ \E t \in Tasks : RecvDisconnected(t)
    \/ \E t \in Tasks : DropRx(t)
    \/ LineSendFrame

Spec == Init /\ [][Next]_vars

(***************************************************************************)
(* SpecStream: the instance after new(), a successful connect() and a      *)
(* successful listen() (InitStream is the state Spec is in then), while    *)
(* the caller makes no further call: the one listener thread, its consumer *)
(* and a device that sends any bytes.                                      *)
(***************************************************************************)
InitStream ==
    /\ tx_port = 1
    /\ poisoned = FALSE
    /\ continue_listening = TRUE
    /\ nconn = 1
    /\ ncalls = 2
    /\ nwrites = 0
    /\ lastCall = [op |-> "listen", prev |-> "connect", env |-> TRUE, res |-> "Ok"]
    /\ pc = [t \in Tasks |-> IF t = 1 THEN "check" ELSE "unspawned"]
    /\ local_rx_port = [t \in Tasks |-> IF t = 1 THEN 1 ELSE 0]
    /\ rx_buffer = [t \in Tasks |-> <<>>]
    /\ rx_packet = [t \in Tasks |-> NewPacket]
    /\ queue = [t \in Tasks |-> <<>>]
    /\ rx_alive = [t \in Tasks |-> t = 1]
    /\ tx_alive = [t \in Tasks |-> t = 1]
    /\ cons = [t \in Tasks |-> "idle"]
    /\ delivered = [t \in Tasks |-> <<>>]
    /\ rxlog = [t \in Tasks |-> <<>>]
    /\ enq = [t \in Tasks |-> <<>>]
    /\ errs = [t \in Tasks |-> "none"]
    /\ wire = <<>>
    /\ nsent = 0
    /\ lost = FALSE

NextStream ==
    \/ \E t \in Tasks : LoopCheck(t)
    \/ \E t \in Tasks : ReadErr(t)
    \/ \E t \in Tasks : ReadIdle(t)
    \/ \E t \in Tasks : ReadData(t)
    \/ \E t \in Tasks : Feed(t)
    \/ \E t \in Tasks : RecvCall(t)
    \/ \E t \in Tasks : RecvPacket(t)
    \/ \E t \in Tasks : DropRx(t)
    \/ DeviceSendByte

SpecStream == InitStream /\ [][NextStream]_vars

(***************************************************************************)
(* SpecLive: from the same state, the caller calls unlisten() and listen() *)
(* any way it likes, the device sends frames, the consumers may drop their *)
(* FlemRx.  Every spawned thread is scheduled and its read returns within  *)
(* the 10 ms timeout the port was opened with, so a thread that can take a *)
(* step eventually takes one.                                              *)
(***************************************************************************)
NextLive ==
    \/ Unlisten
    \/ Listen
    \/ \E t \in Tasks : LoopCheck(t)
    \/ \E t \in Tasks : ReadErr(t)
    \/ \E t \in Tasks : ReadIdle(t)
    \/ \E t \in Tasks : ReadData(t)
    \/ \E t \in Tasks : Feed(t)
    \/ \E t \in Tasks : Exit(t)
    \/ \E t \in Tasks : DropRx(t)
    \/ LineSendFrame

SpecLive == InitStream /\ [][NextLive]_vars /\ \A t \in Tasks : WF_vars(ListenerStep(t))

(***************************************************************************)
(* SpecLost: from the same state, the device may disappear at any moment;  *)
(* until then it sends frames.  The caller may call unlisten().  The       *)
(* listener thread is scheduled as in SpecLive.                            *)
(***************************************************************************)
NextLost ==
    \/ Unlisten
    \/ \E t \in Tasks : LoopCheck(t)
    \/ \E t \in Tasks : ReadErr(t)
    \/ \E t \in Tasks : ReadIdle(t)
    \/ \E t \in Tasks : ReadData(t)
    \/ \E t \in Tasks : Feed(t)
    \/ \E t \in Tasks : Exit(t)
    \/ \E t \in Tasks : DropRx(t)
    \/ LineSendFrame
    \/ DeviceLost

SpecLost == InitStream /\ [][NextLost]_vars /\ \A t \in Tasks : WF_vars(ListenerStep(t))

(***************************************************************************)
(* SpecSessions: from the same state, the caller ends the listening        *)
(* session with unlisten() and starts another with listen(), in any order  *)
(* and at any moment, while the device sends any bytes.                    *)
(***************************************************************************)
NextSessions ==
    \/ UnlistenWithin(MaxSessionCalls)
    \/ ListenWithin(MaxSessionCalls)
    \/ \E t \in Tasks : LoopCheck(t)
    \/ \E t \in Tasks : ReadIdle(t)
    \/ \E t \in Tasks : ReadData(t)
    \/ \E t \in Tasks : Feed(t)
    \/ \E t \in Tasks : Exit(t)
    \/ SendByteWithin(MaxSessionBytes)

SpecSessions == InitStream /\ [][NextSessions]_vars

(***************************************************************************)
(* Byte streams.                                                           *)
(***************************************************************************)
IsFrame(s) == \E r \in Byte : s = Frame(r)

Chunk(s, i) == SubSeq(s, FrameLen * (i - 1) + 1, FrameLen * i)

\* s is K valid frames concatenated, for some K
IsFrameStream(s) ==
    /\ Len(s) % FrameLen = 0
    /\ \A i \in 1 .. (Len(s) \div FrameLen) : IsFrame(Chunk(s, i))

FramesOf(s) == [i \in 1 .. (Len(s) \div FrameLen) |-> Chunk(s, i)]

\* g is not empty and holds no valid frame
IsGarbage(g) ==
    /\ g # <<>>
    /\ \A i \in 1 .. (Len(g) - FrameLen + 1) : ~IsFrame(SubSeq(g, i, i + FrameLen - 1))

\* s is one valid frame, garbage, one valid frame
IsSandwich(s) ==
    /\ Len(s) > 2 * FrameLen
    /\ IsFrame(SubSeq(s, 1, FrameLen))
    /\ IsFrame(SubSeq(s, Len(s) - FrameLen + 1, Len(s)))
    /\ IsGarbage(SubSeq(s, FrameLen + 1, Len(s) - FrameLen))

Filling(s) == SubSeq(s, FrameLen + 1, Len(s) - FrameLen)

\* s is the first bytes of a valid frame, or all of it
IsFramePrefix(s) ==
    /\ Len(s) <= FrameLen
    /\ \E r \in Requests : s = SubSeq(Frame(r), 1, Len(s))

\* p is the end of s
IsSuffix(p, s) ==
    /\ Len(p) <= Len(s)
    /\ p = SubSeq(s, Len(s) - Len(p) + 1, Len(s))

\* p is a run of consecutive elements of s
IsPieceOf(p, s) ==
    \E k \in 1 .. (Len(s) - Len(p) + 1) : p = SubSeq(s, k, k + Len(p) - 1)

\* the assembler after the listener has fed it the bytes of s, starting from pkt
RECURSIVE AssemblerAfter(_, _)
AssemblerAfter(pkt, s) ==
    IF s = <<>> THEN pkt
    ELSE LET status == AddByteStatus(pkt, Head(s))
             stored == AddByteStore(pkt, Head(s))
         IN  AssemblerAfter(IF ResetsPacket(status) THEN ResetLazy(stored) ELSE stored,
                            Tail(s))

(***************************************************************************)
(* C1: when the bytes a listener thread has fed to its assembler since     *)
(* listen() are exactly K valid frames concatenated, however the reads     *)
(* split them, the thread has sent exactly the K packets of these frames   *)
(* on its channel, in the order of the frames, and the consumer has        *)
(* received a prefix of them in that order, the rest waiting in the queue. *)
(***************************************************************************)
C1_FramesEnqueuedInOrder ==
    \A t \in Tasks :
        (rx_alive[t] /\ IsFrameStream(rxlog[t])) =>
            /\ enq[t] = FramesOf(rxlog[t])
            /\ delivered[t] \o queue[t] = enq[t]

C1_Witness ==
    /\ Len(rxlog[1]) = 2 * FrameLen
    /\ IsFrameStream(rxlog[1])
    /\ Len(enq[1]) = 2
    /\ enq[1][1] # enq[1][2]
    /\ delivered[1] = enq[1]
    /\ errs[1] = "none"

(***************************************************************************)
(* C4: a read that returns Err leaves the thread in its loop (it goes on   *)
(* to test the flag again) and touches neither the assembler nor the       *)
(* channel; while the flag is true a thread that has seen failed reads is  *)
(* running, and the frames it is fed after failed reads are enqueued like  *)
(* any others.                                                             *)
(***************************************************************************)
C4_ReadErrorKeepsListening ==
    /\ [][\A t \in Tasks :
             (pc[t] = "read" /\ pc'[t] # "read" /\ errs'[t] = "failing") =>
                 /\ pc'[t] = "check"
                 /\ rx_packet'[t] = rx_packet[t]
                 /\ rx_buffer'[t] = rx_buffer[t]
                 /\ queue'[t] = queue[t]
                 /\ tx_alive'[t] = tx_alive[t]
                 /\ continue_listening' = continue_listening]_vars
    /\ [](\A t \in Tasks :
             (errs[t] # "none" /\ continue_listening /\ rx_alive[t]) =>
                 /\ Running(t)
                 /\ IsFrameStream(rxlog[t]) => enq[t] = FramesOf(rxlog[t]))

\* a frame that was completed after a failed read
C4_Witness ==
    /\ errs[1] = "recovered"
    /\ rxlog[1] = Frame(0)
    /\ enq[1] = <<Frame(0)>>
    /\ Running(1)

(***************************************************************************)
(* C5, as claimed: when the bytes fed are one valid frame, then garbage    *)
(* (any bytes that hold no valid frame), then one valid frame, exactly two *)
(* packets are enqueued.                                                   *)
(***************************************************************************)
C5_GarbageCostsNoFrame ==
    \A t \in Tasks :
        (rx_alive[t] /\ IsSandwich(rxlog[t])) => Len(enq[t]) = 2

(***************************************************************************)
(* C5, amended: when the bytes fed are one valid frame, then garbage that  *)
(* leaves the assembler reset (the listener reset it on the garbage's last *)
(* byte), then one valid frame, exactly the packets of the two frames are  *)
(* enqueued, in order.                                                     *)
(***************************************************************************)
C5_RejectedGarbageCostsNoFrame ==
    \A t \in Tasks :
        (/\ rx_alive[t]
         /\ IsSandwich(rxlog[t])
         /\ AssemblerAfter(NewPacket, Filling(rxlog[t])) = NewPacket) =>
            enq[t] = <<SubSeq(rxlog[t], 1, FrameLen),
                       SubSeq(rxlog[t], Len(rxlog[t]) - FrameLen + 1, Len(rxlog[t]))>>

C5_Witness ==
    /\ IsSandwich(rxlog[1])
    /\ Len(Filling(rxlog[1])) = 3
    /\ AssemblerAfter(NewPacket, Filling(rxlog[1])) = NewPacket
    /\ Len(enq[1]) = 2
    /\ delivered[1] = enq[1]

(***************************************************************************)
(* C2, as claimed: connect returns Ok or one of the three errors and never *)
(* panics, whatever the enumeration does: no match gives NoDeviceFound,    *)
(* two or more give MultipleDevicesFound, one match whose open fails gives *)
(* ErrorConnectingToDevice.  (The failure of try_clone is left aside.)     *)
(***************************************************************************)
C2_ConnectNeverFaults ==
    (lastCall.op = "connect" /\ (lastCall.env.openOk => lastCall.env.cloneOk)) =>
        /\ lastCall.res \in {"Ok", "NoDeviceFoundByThatName",
                             "MultipleDevicesFoundByThatName", "ErrorConnectingToDevice"}
        /\ (lastCall.env.enumOk /\ lastCall.env.matches = 0)
              => lastCall.res = "NoDeviceFoundByThatName"
        /\ (lastCall.env.enumOk /\ lastCall.env.matches >= 2)
              => lastCall.res = "MultipleDevicesFoundByThatName"
        /\ (lastCall.env.enumOk /\ lastCall.env.matches = 1 /\ ~lastCall.env.openOk)
              => lastCall.res = "ErrorConnectingToDevice"

(***************************************************************************)
(* C3: unlisten() only writes false to the flag: it changes no thread, no  *)
(* channel and not the connection.  A thread that is running when          *)
(* unlisten() has been called terminates eventually, whatever its reads    *)
(* return, unless listen() sets the flag again first.                      *)
(***************************************************************************)
C3_UnlistenStopsListener ==
    /\ [][(lastCall'.op = "unlisten" /\ ncalls' = ncalls + 1) =>
             /\ continue_listening' = FALSE
             /\ UNCHANGED <<taskVars, chanVars, tx_port, poisoned>>]_vars
    /\ \A t \in Tasks :
          [](  (lastCall.op = "unlisten" /\ Running(t))
                  => <>(Terminated(t) \/ continue_listening))

C3_Witness ==
    /\ lastCall.op = "unlisten"
    /\ pc[1] = "done"
    /\ errs[1] # "none"
    /\ ~continue_listening

(***************************************************************************)
(* C6: when a listener thread has terminated its Sender is gone; the       *)
(* packets it sent are delivered to the consumer in order (what is not yet *)
(* delivered is in the queue); a consumer blocked in recv() on the channel *)
(* of a terminated thread can return; and recv() reports that there are no *)
(* more producers only after the thread terminated and every packet it     *)
(* sent has been delivered.                                                *)
(***************************************************************************)
C6_QueueClosedAfterExit ==
    \A t \in Tasks :
        /\ Terminated(t) => ~tx_alive[t]
        /\ (Terminated(t) /\ rx_alive[t]) => delivered[t] \o queue[t] = enq[t]
        /\ (Terminated(t) /\ cons[t] = "waiting") => (queue[t] # <<>> \/ ~tx_alive[t])
        /\ cons[t] = "closed" => (Terminated(t) /\ delivered[t] = enq[t])

C6_Witness ==
    \E t \in Tasks :
        /\ pc[t] = "done"
        /\ cons[t] = "closed"
        /\ Len(delivered[t]) = 1

(***************************************************************************)
(* C7, as claimed: at most one listener thread is running at any moment.   *)
(***************************************************************************)
C7_AtMostOneListener ==
    Cardinality({t \in Tasks : Running(t)}) <= 1

(***************************************************************************)
(* C8, as claimed: send returns Some or None and never panics; a failed    *)
(* write and a failed flush both return None.                              *)
(***************************************************************************)
C8_SendNeverFaults ==
    lastCall.op = "send" =>
        /\ lastCall.res \in {"Some", "None"}
        /\ (~lastCall.env.writeOk \/ ~lastCall.env.flushOk) => lastCall.res = "None"

(***************************************************************************)
(* C9: a disconnect() that follows a disconnect() returns Some(()) and     *)
(* leaves the flag, the transmit handle and its lock as they were.         *)
(***************************************************************************)
C9_DisconnectIdempotent ==
    [][(lastCall.op = "disconnect" /\ lastCall'.op = "disconnect" /\ ncalls' = ncalls + 1) =>
          /\ lastCall'.res = "Some"
          /\ continue_listening' = continue_listening
          /\ tx_port' = tx_port
          /\ poisoned' = poisoned
          /\ UNCHANGED <<taskVars, chanVars>>]_vars

C9_Witness ==
    /\ lastCall.op = "disconnect"
    /\ lastCall.prev = "disconnect"
    /\ lastCall.res = "Some"
    /\ tx_port # 0

(***************************************************************************)
(* C10, as claimed: after disconnect() the flag is false and the instance  *)
(* holds no transmit handle, and a send() that follows it returns None.    *)
(***************************************************************************)
C10_DisconnectDropsHandles ==
    /\ lastCall.op = "disconnect" => (~continue_listening /\ tx_port = 0)
    /\ (lastCall.op = "send" /\ lastCall.prev = "disconnect") => lastCall.res = "None"

(***************************************************************************)
(* C11, as claimed: once the device is lost (every read fails from then    *)
(* on), a running listener thread eventually terminates, and the flag is   *)
(* false when it has.                                                      *)
(***************************************************************************)
C11_DeviceLossStopsListener ==
    \A t \in Tasks :
        []((lost /\ Running(t)) => <>(Terminated(t) /\ ~continue_listening))

(***************************************************************************)
(* C12, as claimed: the instance has one connection at a time: a connect() *)
(* on a connected instance is rejected (the new port is not stored) or     *)
(* replaces the connection, and then no running listener thread reads from *)
(* a connection other than the stored one.                                 *)
(***************************************************************************)
C12_NoListenerOnOldConnection ==
    \A t \in Tasks : Running(t) => local_rx_port[t] = tx_port

(***************************************************************************)
(* C13, as claimed: a connect() that finds one port and opens it, but      *)
(* whose try_clone of the opened port fails, returns                       *)
(* ErrorConnectingToDevice.                                                *)
(***************************************************************************)
C13_CloneFailureIsOpenFailed ==
    (/\ lastCall.op = "connect"
     /\ lastCall.env.enumOk
     /\ lastCall.env.matches = 1
     /\ lastCall.env.openOk
     /\ ~lastCall.env.cloneOk) =>
        lastCall.res = "ErrorConnectingToDevice"

(***************************************************************************)
(* C14: a packet is put on the queue only by a step that feeds the         *)
(* assembler a byte on which it reports PacketReceived, and that step puts *)
(* exactly that one packet there and resets the assembler; on              *)
(* HeaderBytesNotFound and on any other error the queue is left alone and  *)
(* the assembler is reset; on PacketBuilding the queue is left alone and   *)
(* the assembler keeps the byte.  What the queue holds and what the        *)
(* consumer receives are complete valid frames, never an error.            *)
(***************************************************************************)
C14_EnqueueOnlyOnFrameComplete ==
    /\ [][\A t \in Tasks :
             /\ Len(queue'[t]) > Len(queue[t]) => rxlog'[t] # rxlog[t]
             /\ rxlog'[t] # rxlog[t] =>
                   LET b == Head(rx_buffer[t])
                       status == AddByteStatus(rx_packet[t], b)
                   IN  /\ (status = "PacketReceived" /\ rx_alive[t]) =>
                             /\ queue'[t] = Append(queue[t], Append(rx_packet[t], b))
                             /\ rx_packet'[t] = NewPacket
                       /\ status = "PacketBuilding" =>
                             /\ queue'[t] = queue[t]
                             /\ rx_packet'[t] = Append(rx_packet[t], b)
                       /\ status \notin {"PacketReceived", "PacketBuilding"} =>
                             /\ queue'[t] = queue[t]
                             /\ rx_packet'[t] = NewPacket]_vars
    /\ [](\A t \in Tasks :
             /\ \A i \in 1 .. Len(queue[t]) : IsFrame(queue[t][i])
             /\ \A i \in 1 .. Len(delivered[t]) : IsFrame(delivered[t][i]))

\* a byte without header, a frame with a bad checksum, a valid frame: one packet
C14_Witness ==
    /\ rxlog[1] = <<0>> \o <<HDR, 0, 1 - Checksum(0)>> \o Frame(0)
    /\ enq[1] = <<Frame(0)>>
    /\ delivered[1] = enq[1]
    /\ queue[1] = <<>>

(***************************************************************************)
(* C15, as claimed: in every reachable state in which the flag is true a   *)
(* listener thread is running.                                             *)
(***************************************************************************)
C15_FlagTrueOnlyWhileListening ==
    continue_listening => \E t \in Tasks : Running(t)

(***************************************************************************)
(* C16, as claimed: when a listener thread writes false to the flag after  *)
(* its loop, the flag is false already.                                    *)
(***************************************************************************)
C16_ExitWriteIsIdempotent ==
    [][\A t \in Tasks :
          (pc[t] = "exit" /\ pc'[t] = "done") => ~continue_listening]_vars

(***************************************************************************)
(* C17: a listen() that spawns a thread gives it an empty assembler and an *)
(* empty read buffer and leaves the assemblers of the other threads alone; *)
(* a thread that feeds a byte changes no other thread's assembler; so the  *)
(* assembler of a thread holds only the last bytes that thread itself      *)
(* read, and every packet a thread enqueued is a run of bytes that thread  *)
(* itself read, whatever an earlier session left in its assembler.         *)
(***************************************************************************)
C17_FreshAssemblerPerListen ==
    /\ [][\A t \in Tasks :
             /\ (pc[t] = "unspawned" /\ pc'[t] # "unspawned") =>
                   /\ rx_packet'[t] = NewPacket
                   /\ rx_buffer'[t] = <<>>
             /\ (pc[t] = "unspawned" /\ pc'[t] # "unspawned") \/ rxlog'[t] # rxlog[t] =>
                   \A u \in Tasks \ {t} : rx_packet'[u] = rx_packet[u]]_vars
    /\ [](\A t \in Tasks :
             /\ IsSuffix(rx_packet[t], rxlog[t])
             /\ \A i \in 1 .. Len(enq[t]) : IsPieceOf(enq[t][i], rxlog[t]))

\* the first session ended with a partial frame; the second enqueued a packet
C17_Witness ==
    /\ pc[1] = "done"
    /\ rx_packet[1] # NewPacket
    /\ lastCall.op = "listen"
    /\ lastCall.prev = "unlisten"
    /\ Len(enq[2]) = 1
    /\ queue[2] = enq[2]

(***************************************************************************)
(* C18: a read that fails or returns no bytes changes neither the          *)
(* assembler nor the queue.  So while the bytes a thread has been fed are  *)
(* the first bytes of a valid frame, the assembler holds exactly them and  *)
(* nothing is enqueued, and once they are the whole frame its packet is    *)
(* enqueued exactly once, however many reads failed or were empty          *)
(* meanwhile.                                                              *)
(***************************************************************************)
C18_EmptyReadsKeepFrameInFlight ==
    /\ [][\A t \in Tasks :
             (pc[t] = "read" /\ pc'[t] = "check") =>
                 /\ rx_packet'[t] = rx_packet[t]
                 /\ queue'[t] = queue[t]
                 /\ enq'[t] = enq[t]
                 /\ rxlog'[t] = rxlog[t]]_vars
    /\ [](\A t \in Tasks :
             (rx_alive[t] /\ IsFramePrefix(rxlog[t])) =>
                 IF Len(rxlog[t]) < FrameLen
                 THEN rx_packet[t] = rxlog[t] /\ enq[t] = <<>>
                 ELSE rx_packet[t] = NewPacket /\ enq[t] = <<rxlog[t]>>)

\* a read failed while two bytes of a frame were in the assembler and its last
\* byte was still on the line
C18_Witness ==
    /\ pc[1] = "check"
    /\ errs[1] = "failing"
    /\ Len(rx_packet[1]) = 2
    /\ rxlog[1] = rx_packet[1]
    /\ wire = <<Checksum(rx_packet[1][2])>>
    /\ enq[1] = <<>>

(***************************************************************************)
(* C19: a connect() that returns one of its three errors leaves the stored *)
(* transmit port, its lock and the flag as they were and changes no        *)
(* listener thread and no channel.                                         *)
(***************************************************************************)
C19_FailedConnectChangesNothing ==
    [][(/\ lastCall'.op = "connect"
        /\ ncalls' = ncalls + 1
        /\ lastCall'.res \in ConnectErrors) =>
           /\ tx_port' = tx_port
           /\ poisoned' = poisoned
           /\ nconn' = nconn
           /\ continue_listening' = continue_listening
           /\ UNCHANGED <<taskVars, chanVars>>]_vars

\* a connect that failed on a connected, listening instance
C19_Witness ==
    /\ lastCall.op = "connect"
    /\ lastCall.prev = "listen"
    /\ lastCall.res = "ErrorConnectingToDevice"
    /\ tx_port = 1
    /\ continue_listening
    /\ Running(1)

(***************************************************************************)
(* C20: a send() on an instance that holds no port returns None, makes no  *)
(* write on any port, and leaves the stored port (none), its lock, the     *)
(* flag, the listener threads and the channels as they were.               *)
(***************************************************************************)
C20_SendWithoutConnection ==
    [][(/\ lastCall'.op = "send"
        /\ ncalls' = ncalls + 1
        /\ tx_port = 0) =>
           /\ lastCall'.res = "None"
           /\ nwrites' = nwrites
           /\ tx_port' = 0
           /\ poisoned' = poisoned
           /\ nconn' = nconn
           /\ continue_listening' = continue_listening
           /\ UNCHANGED <<taskVars, chanVars>>]_vars

\* a send after a connect that failed
C20_Witness ==
    /\ lastCall.op = "send"
    /\ lastCall.prev = "connect"
    /\ lastCall.res = "None"
    /\ tx_port = 0
    /\ nconn = 0
    /\ nwrites = 0

====
